---- MODULE Spec2Model ----
(***************************************************************************)
(* Model of src/main.py: the interactive command loop (start_agent) that   *)
(* generates functions through a backend, lets a human approve them,       *)
(* stores them in the sqlite table `functions`, loads them into globals()  *)
(* and executes ad-hoc code.                                               *)
(*                                                                         *)
(* The program is single threaded and suspends only in input().  A state   *)
(* of the model is the program blocked in one input() call (pc names the   *)
(* call site), or ended.  An action is everything the code does between    *)
(* receiving one input line and blocking in the next input() call.         *)
(***************************************************************************)
EXTENDS Integers, Sequences, FiniteSets, Bags, TLC

VARIABLES
    pc,        \* input() call site the program is blocked in, or "exited" / "crashed"
    cmd,       \* branch of start_agent's loop that is running ("none" at the prompt)
    pend,      \* (code, name, language) held by register_function / offer_fix / fix_function
    arg,       \* function_name read by the load branch (main.py:225)
    catalog,   \* table `functions`: a bag of rows [name, code, language]
    ns,        \* names bound in globals() by exec'd code
    stdout,    \* what sys.stdout refers to: "tty" or "capture"
    exc,       \* exception that propagated out of start_agent ("none" while running)
    out,       \* what the last action printed to the interactive stream
    approved,  \* history: name -> last triple put after a "yes" at review
    cat0,      \* history: catalog when the running command was read
    ns0,       \* history: ns when the running command was read
    soft,      \* history: generation returned the all-absent triple in the running command
    ran,       \* history: <<uc>> when the last action exec'd user code uc, else <<>>
    instr,     \* history: instruction generate_code was called with for the triple in hand
    gen,       \* history: triple generate_code returned for the triple in hand
    rejected,  \* history: (name, code) last rejected at review in the running command
    defined    \* history: record whose code the last action passed to define_function

vars == <<pc, cmd, pend, arg, catalog, ns, stdout, exc, out, approved, cat0, ns0,
          soft, ran, instr, gen, rejected, defined>>

----------------------------------------------------------------------------
(* Values *)

\* Python None / SQL NULL
None == "<None>"

\* function names the backend may return and the human may type
Names == {"f", "g"}

\* a name the human may type that no backend reply carries
UnknownName == "unknown_fn"

\* source texts: "def f" binds f; "def g; raise" binds g and then raises
CodeTexts == {"def f", "def g; raise"}

Languages == {"Python", "js"}

\* answers to the yes/no prompts
Answers == {"yes", "YES", "no"}

\* lines typed at the command prompt
CommandLines == {"exit", "generate", "execute", "load", "list", "LIST", "show", "bogus"}

\* the table holds at most MaxRows rows in the model
MaxRows == 2

\* exception classes of the model that derive from Exception; "SystemExit"
\* derives from BaseException only
ExceptionClasses == {"ZeroDivisionError", "ValueError", "TypeError", "IntegrityError"}

IsException(e) == e \in ExceptionClasses

\* str.lower() on the strings of the model
Lower(s) ==
    CASE s = "Python" -> "python"
      [] s = "YES"    -> "yes"
      [] s = "LIST"   -> "list"
      [] OTHER        -> s

\* truth value of `if code:` (main.py:170)
Truthy(v) == v # None /\ v # ""

\* names a source text binds in globals() when exec'd
Binds(code) ==
    CASE code = "def f"        -> {"f"}
      [] code = "def g; raise" -> {"g"}
      [] OTHER                 -> {}

\* exception a source text raises when exec'd ("none": it completes)
Raises(code) == IF code = "def g; raise" THEN "ZeroDivisionError" ELSE "none"

Triple(c, n, l) == [code |-> c, name |-> n, language |-> l]

NoTriple == Triple(None, None, None)

\* sentences the human types as instruction or as requested change
Sentences == {"make it so"}

\* the instruction request_function passes on: the sentence as typed (main.py:77-81)
RequestInstruction(sentence) == [kind |-> "request", embedded |-> None, text |-> sentence]

\* the instruction fix_function builds: the existing code and the requested
\* change embedded in a fixed text (main.py:166)
FixInstruction(existing_code, user_input) ==
    [kind |-> "fix", embedded |-> existing_code, text |-> user_input]

NoInstruction == [kind |-> "none", embedded |-> None, text |-> None]

NoOut == [kind |-> "none", name |-> None, code |-> None, names |-> EmptyBag,
          captured |-> <<>>, error |-> "none"]

----------------------------------------------------------------------------
(* Function Catalog: table `functions` (name TEXT PRIMARY KEY,             *)
(* code TEXT NOT NULL, language TEXT NOT NULL)                             *)

\* rows a statement `... WHERE name=?` selects; NULL = ? is never true
RowsNamed(cat, name) == {r \in BagToSet(cat) : r.name # None /\ r.name = name}

\* does INSERT OR REPLACE raise IntegrityError (NOT NULL constraint failed)?
PutFails(row) == row.code = None \/ row.language = None

\* a put that empties the table before it inserts (DELETE without its WHERE)
InsertOrReplace_clears_table(cat, row) == SetToBag({row})

\* INSERT OR REPLACE INTO functions VALUES (name, code, language), committed.
\* A row with the same non-NULL primary key is deleted first; NULL keys never
\* conflict in sqlite, so a NULL-named row is simply added.
InsertOrReplace(cat, row) ==
    LET keep == {r \in BagToSet(cat) : row.name = None \/ r.name # row.name}
        kept == [r \in keep |-> cat[r]]
    IN  kept (+) SetToBag({row})

\* SELECT name FROM functions: one name per row, order unspecified
list_functions(cat) ==
    LET ns_ == {r.name : r \in BagToSet(cat)}
        Count(n) == BagCardinality([r \in {x \in BagToSet(cat) : x.name = n} |-> cat[r]])
    IN  [n \in ns_ |-> Count(n)]

\* show_function printing column 2 (language) of the row in place of column 1
show_function_language_column(cat, name) ==
    IF RowsNamed(cat, name) = {}
    THEN [NoOut EXCEPT !.kind = "notfound", !.name = name]
    ELSE LET r == CHOOSE x \in RowsNamed(cat, name) : TRUE
         IN  [NoOut EXCEPT !.kind = "show", !.name = r.name, !.code = r.language]

\* show_function: what it prints for `name`
show_function(cat, name) ==
    IF RowsNamed(cat, name) = {}
    THEN [NoOut EXCEPT !.kind = "notfound", !.name = name]
    ELSE LET r == CHOOSE x \in RowsNamed(cat, name) : TRUE
         IN  [NoOut EXCEPT !.kind = "show", !.name = r.name, !.code = r.code]

----------------------------------------------------------------------------
(* Generation Service Adapter *)

\* replies of the backend: reply_content with or without function_call,
\* whose arguments are absent, not JSON, JSON but not an object, or an
\* object with any of the three fields present or absent
Replies ==
    [function_call : {FALSE}, arguments : {"absent"},
     function_code : {None}, function_name : {None}, function_language : {None}]
    \cup
    [function_call : {TRUE}, arguments : {"absent", "malformed", "nondict"},
     function_code : {None}, function_name : {None}, function_language : {None}]
    \cup
    [function_call : {TRUE}, arguments : {"object"},
     function_code : CodeTexts \cup {None},
     function_name : Names \cup {None},
     function_language : Languages \cup {None}]

\* extract_code: the triple (code, function_name, language)
extract_code(reply) ==
    IF reply.function_call /\ reply.arguments # "absent"
    THEN IF reply.arguments = "object"
         THEN Triple(reply.function_code, reply.function_name, reply.function_language)
         ELSE NoTriple      \* json.loads or .get raised: warned
    ELSE NoTriple           \* warned

\* generate_code: the backend's reply run through extract_code
generate_code(reply) == extract_code(reply)

----------------------------------------------------------------------------
(* Execution Engine *)

\* user code given to the execute branch: it writes `writes` to sys.stdout,
\* unbinds `unbind` from globals(), then raises `raises` ("none": completes)
UserCodes ==
    [writes : {<<>>, <<"a">>, <<"a", "b">>, <<"b", "a">>},
     unbind : Names \cup {None},
     raises : {"none", "ZeroDivisionError", "ValueError", "SystemExit"}]

\* the two lines the except clause prints (main.py:190-191)
ErrorLines == <<"Execution of user_code yielded error", "Please try again">>

\* stdoutIO without its last line (`sys.stdout = old`)
execute_user_code_never_restores(uc) ==
    LET caught == IsException(uc.raises)
        propagates == uc.raises # "none" /\ ~caught
    IN  [buffer     |-> IF caught THEN uc.writes \o ErrorLines ELSE uc.writes,
         propagates |-> propagates,
         stdout     |-> "capture",
         error      |-> uc.raises]

\* execute_user_code: sys.stdout is swapped for a StringIO by stdoutIO, the
\* code is exec'd, `except Exception` prints the error lines while the swap
\* is still in place; stdoutIO restores sys.stdout only when its with-block
\* ends normally (no try/finally around the yield)
execute_user_code(uc) ==
    LET caught == IsException(uc.raises)
        propagates == uc.raises # "none" /\ ~caught
    IN  [buffer     |-> IF caught THEN uc.writes \o ErrorLines ELSE uc.writes,
         propagates |-> propagates,
         stdout     |-> IF propagates THEN "capture" ELSE "tty",
         error      |-> uc.raises]

\* define_function exec'ing into a fresh dict that then replaces the namespace
define_function_fresh_namespace(namespace, code) == Binds(code)

\* define_function: exec(code, globals()); the names bound before a raise stay bound
define_function(namespace, code) == namespace \cup Binds(code)

----------------------------------------------------------------------------
(* Command loop *)

\* main() on a fresh functions.db: the table is created empty, nothing is
\* loaded, and start_agent blocks in its first input()
Init ==
    /\ pc = "command"
    /\ cmd = "none"
    /\ pend = NoTriple
    /\ arg = None
    /\ catalog = EmptyBag
    /\ ns = {}
    /\ stdout = "tty"
    /\ exc = "none"
    /\ out = NoOut
    /\ approved = [n \in Names \cup {None} |-> NoTriple]
    /\ cat0 = EmptyBag
    /\ ns0 = {}
    /\ soft = FALSE
    /\ ran = <<>>
    /\ instr = NoInstruction
    /\ gen = NoTriple
    /\ rejected = NoTriple
    /\ defined = NoTriple

\* an exception leaves start_agent and main: the process ends
Crash(e) ==
    /\ pc' = "crashed"
    /\ exc' = e
    /\ UNCHANGED <<cmd, cat0, ns0, soft, instr, gen, rejected>>

\* the branch of the loop is over, leaving the table `cat` and the namespace
\* `nsp`: `while True` prints the prompt and reads again
NextCommand(cat, nsp) ==
    /\ pc' = "command"
    /\ cmd' = "none"
    /\ exc' = "none"
    /\ cat0' = cat
    /\ ns0' = nsp
    /\ soft' = FALSE
    /\ instr' = NoInstruction
    /\ gen' = NoTriple
    /\ rejected' = NoTriple

\* a command line is read (main.py:207): the branch `c` is entered
Enter(c, site) ==
    /\ pc' = site
    /\ cmd' = c
    /\ cat0' = catalog
    /\ ns0' = ns
    /\ out' = NoOut
    /\ soft' = FALSE
    /\ ran' = <<>>
    /\ defined' = NoTriple
    /\ instr' = NoInstruction
    /\ gen' = NoTriple
    /\ rejected' = NoTriple
    /\ UNCHANGED <<pend, arg, catalog, ns, stdout, exc, approved>>

\* main.py:209-211
CmdExit ==
    /\ pc = "command"
    /\ \E line \in CommandLines : Lower(line) = "exit"
    /\ pc' = "exited"
    /\ out' = [NoOut EXCEPT !.kind = "goodbye"]
    /\ ran' = <<>>
    /\ defined' = NoTriple
    /\ UNCHANGED <<cmd, pend, arg, catalog, ns, stdout, exc, approved, cat0, ns0, soft,
                   instr, gen, rejected>>

\* main.py:213-214, request_function up to its input() (main.py:77)
CmdGenerate ==
    /\ pc = "command"
    /\ \E line \in CommandLines : Lower(line) = "generate"
    /\ Enter("generate", "instruction")

\* main.py:216-217
CmdExecute ==
    /\ pc = "command"
    /\ \E line \in CommandLines : Lower(line) = "execute"
    /\ Enter("execute", "usercode")

\* main.py:224-225
CmdLoad ==
    /\ pc = "command"
    /\ \E line \in CommandLines : Lower(line) = "load"
    /\ Enter("load", "loadname")

\* main.py:232-233
CmdShow ==
    /\ pc = "command"
    /\ \E line \in CommandLines : Lower(line) = "show"
    /\ Enter("show", "showname")

\* main.py:229-230 and list_functions
CmdList ==
    /\ pc = "command"
    /\ \E line \in CommandLines : Lower(line) = "list"
    /\ out' = [NoOut EXCEPT !.kind = "list", !.names = list_functions(catalog)]
    /\ ran' = <<>>
    /\ defined' = NoTriple
    /\ UNCHANGED <<pend, arg, catalog, ns, stdout, approved>>
    /\ NextCommand(catalog, ns)

\* main.py:236-237
CmdUnknown ==
    /\ pc = "command"
    /\ \E line \in CommandLines :
          Lower(line) \notin {"exit", "generate", "execute", "load", "list", "show"}
    /\ out' = [NoOut EXCEPT !.kind = "notunderstood"]
    /\ ran' = <<>>
    /\ defined' = NoTriple
    /\ UNCHANGED <<pend, arg, catalog, ns, stdout, approved>>
    /\ NextCommand(catalog, ns)

\* the show branch calling define_function on the row it shows, as the load
\* branch does
ShowName_defines_function ==
    /\ pc = "showname"
    /\ \E name \in Names \cup {UnknownName} :
          /\ out' = show_function(catalog, name)
          /\ ns' = IF RowsNamed(catalog, name) = {}
                   THEN ns
                   ELSE define_function(ns, (CHOOSE r \in RowsNamed(catalog, name) : TRUE).code)
    /\ ran' = <<>>
    /\ defined' = NoTriple
    /\ UNCHANGED <<pend, arg, catalog, stdout, approved>>
    /\ NextCommand(catalog, ns)

\* show_function after the name is read (main.py:233-234)
ShowName ==
    /\ pc = "showname"
    /\ \E name \in Names \cup {UnknownName} : out' = show_function(catalog, name)
    /\ ran' = <<>>
    /\ defined' = NoTriple
    /\ UNCHANGED <<pend, arg, catalog, ns, stdout, approved>>
    /\ NextCommand(catalog, ns)

\* the execute branch after the code is read (main.py:217-222).  Whatever
\* the code raises reaches `except Exception` first, so the ValueError
\* handler of start_agent (main.py:221) never sees a failure of the code.
UserCode ==
    /\ pc = "usercode"
    /\ \E uc \in UserCodes :
          LET r == execute_user_code(uc) IN
          /\ ns' = ns \ {uc.unbind}
          /\ ran' = <<uc>>
          /\ defined' = NoTriple
          /\ stdout' = r.stdout
          /\ IF r.propagates
             THEN /\ out' = NoOut
                  /\ Crash(r.error)
             ELSE /\ out' = [NoOut EXCEPT !.kind = "output", !.captured = r.buffer,
                                          !.error = r.error]
                  /\ NextCommand(catalog, ns \ {uc.unbind})
    /\ UNCHANGED <<pend, arg, catalog, approved>>

\* the call chain below request_function has returned to the branch that
\* started it: the generate branch is over; get_function goes on to
\* `return result[0]` with result None (main.py:97)
Return(cat, nsp) ==
    IF cmd = "load" THEN Crash("TypeError") ELSE NextCommand(cat, nsp)

\* request_function after the instruction is read (main.py:77-83), up to the
\* input() of register_function (main.py:59)
Instruction ==
    /\ pc = "instruction"
    /\ \E reply \in Replies : pend' = generate_code(reply)
    /\ \E sentence \in Sentences : instr' = RequestInstruction(sentence)
    /\ gen' = pend'
    /\ rejected' = rejected
    /\ soft' = (soft \/ pend' = NoTriple)
    /\ pc' = "register"
    /\ out' = [NoOut EXCEPT !.kind = "generated"]
    /\ ran' = <<>>
    /\ defined' = NoTriple
    /\ UNCHANGED <<cmd, arg, catalog, ns, stdout, exc, approved, cat0, ns0>>

\* register_function offering the load whatever the language (main.py:66
\* left out)
ReviewYes_without_language_gate ==
    /\ pc = "register"
    /\ \E answer \in Answers : Lower(answer) = "yes"
    /\ ran' = <<>>
    /\ defined' = NoTriple
    /\ UNCHANGED <<arg, ns, stdout>>
    /\ IF PutFails(pend)
       THEN /\ Crash("IntegrityError")
            /\ out' = NoOut
            /\ UNCHANGED <<pend, catalog, approved>>
       ELSE /\ catalog' = InsertOrReplace(catalog, pend)
            /\ BagCardinality(catalog') <= MaxRows
            /\ approved' = [approved EXCEPT ![pend.name] = pend]
            /\ out' = [NoOut EXCEPT !.kind = "saved", !.name = pend.name]
            /\ pc' = "loadnow"
            /\ UNCHANGED <<cmd, pend, exc, cat0, ns0, soft, instr, gen, rejected>>

\* register_function, answer "yes" (main.py:60-68): the put, then the offer
\* to load when the language is python
ReviewYes ==
    /\ pc = "register"
    /\ \E answer \in Answers : Lower(answer) = "yes"
    /\ ran' = <<>>
    /\ defined' = NoTriple
    /\ UNCHANGED <<arg, ns, stdout>>
    /\ IF PutFails(pend)
       THEN /\ Crash("IntegrityError")
            /\ out' = NoOut
            /\ UNCHANGED <<pend, catalog, approved>>
       ELSE /\ catalog' = InsertOrReplace(catalog, pend)
            /\ BagCardinality(catalog') <= MaxRows
            /\ approved' = [approved EXCEPT ![pend.name] = pend]
            /\ out' = [NoOut EXCEPT !.kind = "saved", !.name = pend.name]
            /\ IF Lower(pend.language) = "python"
               THEN /\ pc' = "loadnow"
                    /\ UNCHANGED <<cmd, pend, exc, cat0, ns0, soft, instr, gen, rejected>>
               ELSE /\ pend' = NoTriple
                    /\ Return(InsertOrReplace(catalog, pend), ns)

\* register_function with the put ahead of the answer check: a rejected
\* triple is written all the same
ReviewNo_puts_anyway ==
    /\ pc = "register"
    /\ \E answer \in Answers : Lower(answer) # "yes"
    /\ ~PutFails(pend)
    /\ catalog' = InsertOrReplace(catalog, pend)
    /\ pc' = "applyfix"
    /\ pend' = [pend EXCEPT !.language = None]
    /\ rejected' = [pend EXCEPT !.language = None]
    /\ instr' = NoInstruction
    /\ gen' = NoTriple
    /\ out' = [NoOut EXCEPT !.kind = "cancelled", !.name = pend.name]
    /\ ran' = <<>>
    /\ defined' = NoTriple
    /\ UNCHANGED <<cmd, arg, ns, stdout, exc, approved, cat0, ns0, soft>>

\* register_function, any other answer (main.py:71-73), offer_fix up to its
\* input() (main.py:196-197); offer_fix receives name and code only
ReviewNo ==
    /\ pc = "register"
    /\ \E answer \in Answers : Lower(answer) # "yes"
    /\ pc' = "applyfix"
    /\ pend' = [pend EXCEPT !.language = None]
    /\ rejected' = [pend EXCEPT !.language = None]
    /\ instr' = NoInstruction
    /\ gen' = NoTriple
    /\ out' = [NoOut EXCEPT !.kind = "cancelled", !.name = pend.name]
    /\ ran' = <<>>
    /\ defined' = NoTriple
    /\ UNCHANGED <<cmd, arg, catalog, ns, stdout, exc, approved, cat0, ns0, soft>>

\* register_function after the second answer (main.py:68-70)
LoadNow ==
    /\ pc = "loadnow"
    /\ \E answer \in Answers :
          IF Lower(answer) = "yes"
          THEN /\ ns' = define_function(ns, pend.code)
               /\ defined' = pend
               /\ IF Raises(pend.code) # "none"
                  THEN /\ Crash(Raises(pend.code))
                       /\ out' = NoOut
                  ELSE /\ out' = [NoOut EXCEPT !.kind = "loaded", !.name = pend.name]
                       /\ Return(catalog, define_function(ns, pend.code))
          ELSE /\ ns' = ns
               /\ defined' = NoTriple
               /\ out' = NoOut
               /\ Return(catalog, ns)
    /\ pend' = NoTriple
    /\ ran' = <<>>
    /\ UNCHANGED <<arg, catalog, stdout, approved>>

\* offer_fix after the answer (main.py:197-199), fix_function up to its
\* input() (main.py:162-164)
ApplyFix ==
    /\ pc = "applyfix"
    /\ \E answer \in Answers :
          IF Lower(answer) = "yes"
          THEN /\ pc' = "change"
               /\ out' = [NoOut EXCEPT !.kind = "fixing", !.name = pend.name]
               /\ UNCHANGED <<cmd, pend, exc, cat0, ns0, soft, instr, gen, rejected>>
          ELSE /\ pend' = NoTriple
               /\ out' = NoOut
               /\ Return(catalog, ns)
    /\ ran' = <<>>
    /\ defined' = NoTriple
    /\ UNCHANGED <<arg, catalog, ns, stdout, approved>>

\* fix_function registering the new code under the name it was called with
\* (register_function(name, code, ...) in place of function_name)
Change_keeps_original_name ==
    /\ pc = "change"
    /\ \E reply \in Replies, user_input \in Sentences :
          LET t == generate_code(reply) IN
          IF Truthy(t.code)
          THEN /\ pend' = [t EXCEPT !.name = pend.name]
               /\ instr' = FixInstruction(pend.code, user_input)
               /\ gen' = t
               /\ pc' = "register"
               /\ out' = [NoOut EXCEPT !.kind = "generated"]
               /\ UNCHANGED <<cmd, exc, cat0, ns0, soft, rejected>>
          ELSE /\ pend' = NoTriple
               /\ out' = [NoOut EXCEPT !.kind = "unable"]
               /\ Return(catalog, ns)
    /\ ran' = <<>>
    /\ defined' = NoTriple
    /\ UNCHANGED <<arg, catalog, ns, stdout, approved>>

\* fix_function after the change is read (main.py:164-173)
Change ==
    /\ pc = "change"
    /\ \E reply \in Replies, user_input \in Sentences :
          LET t == generate_code(reply) IN
          IF Truthy(t.code)
          THEN /\ pend' = t
               /\ instr' = FixInstruction(pend.code, user_input)
               /\ gen' = t
               /\ pc' = "register"
               /\ out' = [NoOut EXCEPT !.kind = "generated"]
               /\ UNCHANGED <<cmd, exc, cat0, ns0, soft, rejected>>
          ELSE /\ pend' = NoTriple
               /\ out' = [NoOut EXCEPT !.kind = "unable"]
               /\ Return(catalog, ns)
    /\ ran' = <<>>
    /\ defined' = NoTriple
    /\ UNCHANGED <<arg, catalog, ns, stdout, approved>>

\* the load branch after the name is read: get_function (main.py:87-92) and,
\* when the row exists, define_function (main.py:97, 227)
LoadName ==
    /\ pc = "loadname"
    /\ \E name \in Names \cup {UnknownName} :
          IF RowsNamed(catalog, name) = {}
          THEN /\ arg' = name
               /\ pc' = "offergen"
               /\ out' = [NoOut EXCEPT !.kind = "notfound", !.name = name]
               /\ defined' = NoTriple
               /\ UNCHANGED <<cmd, ns, exc, cat0, ns0, soft, instr, gen, rejected>>
          ELSE LET row == CHOOSE r \in RowsNamed(catalog, name) : TRUE
                   code == row.code
               IN
               /\ arg' = None
               /\ defined' = row
               /\ ns' = define_function(ns, code)
               /\ IF Raises(code) # "none"
                  THEN /\ Crash(Raises(code))
                       /\ out' = NoOut
                  ELSE /\ out' = [NoOut EXCEPT !.kind = "loaded", !.name = name]
                       /\ NextCommand(catalog, define_function(ns, code))
    /\ ran' = <<>>
    /\ UNCHANGED <<pend, catalog, stdout, approved>>

\* get_function without its `raise`: a declined offer falls through to
\* `return result[0]` with result None
OfferGen_without_raise ==
    /\ pc = "offergen"
    /\ \E answer \in Answers :
          IF Lower(answer) = "yes"
          THEN /\ pc' = "instruction"
               /\ UNCHANGED <<cmd, exc, cat0, ns0, soft, instr, gen, rejected>>
          ELSE Crash("TypeError")
    /\ out' = NoOut
    /\ ran' = <<>>
    /\ defined' = NoTriple
    /\ UNCHANGED <<pend, arg, catalog, ns, stdout, approved>>

\* get_function after the answer to the generation offer (main.py:93-96)
OfferGen ==
    /\ pc = "offergen"
    /\ \E answer \in Answers :
          IF Lower(answer) = "yes"
          THEN /\ pc' = "instruction"
               /\ UNCHANGED <<cmd, exc, cat0, ns0, soft, instr, gen, rejected>>
          ELSE Crash("ValueError")
    /\ out' = NoOut
    /\ ran' = <<>>
    /\ defined' = NoTriple
    /\ UNCHANGED <<pend, arg, catalog, ns, stdout, approved>>

Next ==
    \/ CmdExit
    \/ CmdGenerate
    \/ CmdExecute
    \/ CmdLoad
    \/ CmdShow
    \/ CmdList
    \/ CmdUnknown
    \/ ShowName
    \/ UserCode
    \/ Instruction
    \/ ReviewYes
    \/ ReviewNo
    \/ LoadNow
    \/ ApplyFix
    \/ Change
    \/ LoadName
    \/ OfferGen

Spec == Init /\ [][Next]_vars

TypeOK ==
    /\ pc \in {"command", "instruction", "register", "loadnow", "applyfix", "change",
               "usercode", "loadname", "offergen", "showname", "exited", "crashed"}
    /\ cmd \in {"none", "generate", "execute", "load", "show"}
    /\ stdout \in {"tty", "capture"}
    /\ ns \subseteq Names
    /\ IsABag(catalog)
    /\ BagCardinality(catalog) <= MaxRows

----------------------------------------------------------------------------
(* Properties *)

\* the rows of the table whose name column is n (NULL included), as a bag
RowsWithName(n) ==
    [r \in {x \in BagToSet(catalog) : x.name = n} |-> catalog[r]]

\* C1: user code given to execute never ends the session: whatever it
\* raises is caught inside execute_user_code, and the loop reads the next
\* command.
C1_ExecuteNeverEndsSession ==
    cmd = "execute" => pc # "crashed"

\* C2: the table holds at most one record per name, and the record under a
\* name is the (code, language) of the most recent approved registration
\* under that name.
C2_OneRecordPerNameLastWins ==
    \A n \in Names \cup {None} :
        /\ BagCardinality(RowsWithName(n)) <= 1
        /\ approved[n] = NoTriple => RowsWithName(n) = EmptyBag
        /\ approved[n] # NoTriple => RowsWithName(n) = SetToBag({approved[n]})

\* C3: when generation returns the all-absent triple, registration is
\* skipped: no approval prompt is issued for it, no put is attempted and the
\* table is as it was when the command was read.
C3_AllAbsentSkipsRegistration ==
    /\ ~(pc = "register" /\ pend = NoTriple)
    /\ ~(pc = "crashed" /\ exc = "IntegrityError" /\ pend = NoTriple)
    /\ (soft /\ pend = NoTriple) => catalog = cat0

\* C4: a lookup of a name that was never written never ends the session:
\* show reports not-found, and a load whose generation offer is declined
\* fails that command only.
C4_LookupMissNeverEndsSession ==
    (cmd \in {"load", "show"} /\ exc = "ValueError") => pc # "crashed"

\* C5: the triple extract_code returns, which register_function reviews, is
\* fully populated or fully empty, never partially populated.
C5_TripleAllOrNothing ==
    pc = "register" =>
        \/ pend = NoTriple
        \/ (pend.code # None /\ pend.name # None /\ pend.language # None)

\* C6: after a soft generation failure (the all-absent triple) the running
\* command never ends the session, whatever the human answers.
C6_SoftFailureNeverEndsSession ==
    soft => pc # "crashed"

\* C7: a load of a name absent from the table whose generation offer is
\* declined raises the not-found failure (ValueError), and the table and
\* the namespace are as they were when the load command was read.
C7_DeclinedLoadMissRaisesAndChangesNothing ==
    [][(pc = "offergen" /\ pc' # "instruction")
          => /\ pc' = "crashed"
             /\ exc' = "ValueError"
             /\ catalog' = cat0' /\ cat0' = cat0
             /\ ns' = ns0' /\ ns0' = ns0]_vars

\* C7 witness: the load of an absent name was declined while the table held
\* rows and the namespace held names.
C7_Witness ==
    /\ pc = "crashed" /\ cmd = "load" /\ exc = "ValueError"
    /\ RowsNamed(catalog, arg) = {}
    /\ catalog # EmptyBag /\ catalog = cat0
    /\ ns # {} /\ ns = ns0

\* C8: a source text that raises while it is defined into the namespace (by
\* the load command or by the load offered after registration) does not end
\* the session.
C8_DefinitionFailureContained ==
    (cmd \in {"load", "generate"} /\ exc = Raises("def g; raise")) => pc # "crashed"

\* C9: after a run of user code, succeeded or failed, the captured output
\* is reported and is exactly the texts the code wrote, in order.
C9_CapturedIsExactlyWritten ==
    ran # <<>> => (out.kind = "output" /\ out.captured = ran[1].writes)

\* C10: after an approved registration under a name, until the next one
\* under that name, list includes the name and show of the name prints the
\* stored code verbatim.
C10_ListAndShowAfterRegistration ==
    /\ out.kind = "list" =>
          \A n \in Names \cup {None} : approved[n] # NoTriple => BagIn(n, out.names)
    /\ (pc = "command" /\ out.kind \in {"show", "notfound"}) =>
          \A n \in Names :
              (out.name = n /\ approved[n] # NoTriple) =>
                  (out.kind = "show" /\ out.code = approved[n].code)

\* C10 witness: show prints the stored code of a registered name while the
\* table holds another record and the namespace holds a loaded function.
C10_Witness ==
    /\ pc = "command" /\ out.kind = "show"
    /\ out.code = approved[out.name].code
    /\ BagCardinality(catalog) = 2
    /\ ns # {}

\* the names of the rows of a table
NamesIn(cat) == {r.name : r \in BagToSet(cat)}

\* the rows of table cat whose name column is n, as a bag
NamedRows(cat, n) == [r \in {x \in BagToSet(cat) : x.name = n} |-> cat[r]]

\* the rows the step adds to the table
AddedRows == {r \in BagToSet(catalog') : CopiesIn(r, catalog') > CopiesIn(r, catalog)}

\* the rows the step takes out of the table
RemovedRows == {r \in BagToSet(catalog) : CopiesIn(r, catalog') < CopiesIn(r, catalog)}

\* C11: the table changes only in the step that answers "yes" at review,
\* and the row written is exactly the triple under review; every named
\* record is the last approved one; a rejection followed by a declined fix
\* leaves the table as it was when the command was read.
C11_OnlyApprovedTriplesAreWritten ==
    /\ [](\A r \in BagToSet(catalog) : r.name # None => approved[r.name] = r)
    /\ [][/\ catalog' # catalog =>
               (pc = "register" /\ pc' # "applyfix" /\ AddedRows \subseteq {pend})
          /\ (pc = "applyfix" /\ pc' # "change") =>
               (catalog' = catalog /\ catalog' = cat0)]_vars

\* C11 witness: a triple was rejected at review while the table holds a
\* record under the same name with other code
C11_Witness ==
    /\ pc = "applyfix"
    /\ RowsNamed(catalog, pend.name) # {}
    /\ \A r \in RowsNamed(catalog, pend.name) : r.code # pend.code
    /\ catalog = cat0

C13_NoRecordRemoved ==
    [][/\ NamesIn(catalog) \subseteq NamesIn(catalog')
       /\ BagCardinality(catalog) <= BagCardinality(catalog')
       /\ \A r \in RemovedRows : \E q \in AddedRows : q.name = r.name]_vars

\* C13 witness: a record was replaced under its name (the table before the
\* command held another row under the name just written) while a second
\* record stayed
C13_Witness ==
    /\ pc = "loadnow"
    /\ RowsNamed(cat0, pend.name) # {}
    /\ pend \notin RowsNamed(cat0, pend.name)
    /\ RowsNamed(catalog, pend.name) = {pend}
    /\ BagCardinality(catalog) = 2

\* C14: in a fix cycle the instruction sent to the backend embeds the
\* rejected code and the requested change; the triple reviewed next is the
\* one that generation returned; an approval writes that triple and no
\* other row, and when its name differs from the rejected name the rows
\* under the rejected name are left as they were.
C14_FixRegistersTheNewTriple ==
    [][/\ (pc = "change" /\ pc' = "register") =>
            /\ instr'.kind = "fix"
            /\ instr'.embedded = rejected.code
            /\ instr'.text \in Sentences
            /\ pend' = gen'
       /\ (pc = "register" /\ instr.kind = "fix" /\ catalog' # catalog) =>
            /\ pend = gen
            /\ AddedRows = {gen}
            /\ rejected.name # gen.name =>
                  NamedRows(catalog', rejected.name) = NamedRows(catalog, rejected.name)]_vars

\* C14 witness: f was rejected, the fix came back named g and was approved:
\* g is stored, and the record already stored under f is still there
C14_Witness ==
    /\ pc = "loadnow"
    /\ instr.kind = "fix"
    /\ rejected.name = "f" /\ pend.name = "g"
    /\ RowsNamed(catalog, "g") = {pend}
    /\ RowsNamed(catalog, "f") # {}
    /\ RowsNamed(catalog, "f") = RowsNamed(cat0, "f")

\* the input() sites of a lifecycle: request_function, register_function,
\* offer_fix, fix_function
LifecycleSites == {"instruction", "register", "loadnow", "applyfix", "change"}

\* C15: the load is offered only once the record is committed and only for
\* a python record; registration binds names only in the step that answers
\* the load offer with "yes", and then by defining the record just stored;
\* that step leaves the table alone, so a load that fails leaves the record.
C15_CommitBeforeLoadAndLanguageGate ==
    /\ [](pc = "loadnow" =>
            (CopiesIn(pend, catalog) >= 1 /\ Lower(pend.language) = "python"))
    /\ [][/\ pc \in LifecycleSites \ {"loadnow"} => (ns' = ns /\ defined' = NoTriple)
          /\ pc = "loadnow" =>
               /\ catalog' = catalog
               /\ defined' \in {NoTriple, pend}
               /\ defined' = NoTriple => ns' = ns
               /\ defined' = pend => ns' = define_function(ns, pend.code)]_vars

\* C15 witness: the load offered after registration failed (the code raised
\* while it was defined) and the record is in the table
C15_Witness ==
    /\ pc = "crashed" /\ cmd = "generate"
    /\ exc = "ZeroDivisionError"
    /\ defined # NoTriple
    /\ CopiesIn(defined, catalog) >= 1
    /\ Lower(defined.language) = "python"

\* C16: a load of an absent name whose generation offer was accepted ends
\* without raising once the request cycle has run (its put and its load not
\* having failed): of the failures of get_function, only the not-found
\* failure of a declined offer ends a load miss.
C16_AcceptedLoadMissEndsWithoutRaising ==
    (cmd = "load" /\ arg # None /\ pc = "crashed") =>
        exc \in {"ValueError", "IntegrityError", Raises("def g; raise")}

\* C17: list, show and unrecognized input leave the table and the namespace
\* unchanged and the loop goes on to the next prompt; input that is no
\* command prints the not-understood line.
C17_ListShowUnknownChangeNothing ==
    [][/\ (pc = "command" /\ pc' = "command") =>
            /\ catalog' = catalog /\ ns' = ns
            /\ exc' = "none"
            /\ out'.kind \in {"list", "notunderstood"}
       /\ (pc = "command" /\ pc' = "showname") =>
            (catalog' = catalog /\ ns' = ns)
       /\ pc = "showname" =>
            /\ pc' = "command"
            /\ catalog' = catalog /\ ns' = ns
            /\ exc' = "none"
            /\ out'.kind \in {"show", "notfound"}]_vars

\* C17 witness: unrecognized input was answered while the table held rows
\* and the namespace held names
C17_Witness ==
    /\ pc = "command" /\ out.kind = "notunderstood"
    /\ catalog # EmptyBag /\ ns # {}

\* C18: a lifecycle started by generate moves Drafting -> PendingApproval ->
\* Registered or Rejected, from Rejected to Drafting or Terminal, and ends
\* back at the command prompt.
C18_LifecycleTransitions ==
    [][cmd = "generate" =>
          \/ pc = "instruction" /\ pc' = "register"
          \/ pc = "register" /\ pc' \in {"loadnow", "command", "applyfix"}
          \/ pc = "loadnow" /\ pc' = "command"
          \/ pc = "applyfix" /\ pc' \in {"change", "command"}
          \/ pc = "change" /\ pc' = "register"]_vars

C20_OnlyPythonIsDefined ==
    defined # NoTriple => Lower(defined.language) = "python"

====
